---- MODULE Spec2Model ----
(***************************************************************************)
(* Model of taps/data/config.py: the FilterConfig filter selector, the     *)
(* process-wide data transformer config registry and the argument surface  *)
(* built by DataTransformerChoicesConfig.add_argument_group.               *)
(*                                                                         *)
(* A Python dict is modelled as a sequence of [name, cls] entries with     *)
(* pairwise distinct names, in insertion order.  Python str values are     *)
(* TLA+ strings; their ordering is the code point ordering given by Chars. *)
(***************************************************************************)
EXTENDS Integers, Sequences, FiniteSets, TLC

(* ---------------------------- bounds ---------------------------------- *)
NumNames == 2
MaxArgv == 2
MaxBytes == 1

(* ---------------------------- universe -------------------------------- *)
None == "None"

NamePool == <<"null", "foo", "fo", "bar", "baz", "nul">>

Names == {NamePool[i] : i \in 1..NumNames}

\* code points of the characters of each name (ord of each character)
Chars ==
  [null |-> <<110, 117, 108, 108>>,
   foo  |-> <<102, 111, 111>>,
   fo   |-> <<102, 111>>,
   bar  |-> <<98, 97, 114>>,
   baz  |-> <<98, 97, 122>>,
   nul  |-> <<110, 117, 108>>]

\* configuration types that can be registered (subclasses of DataTransformerConfig)
Types == {"NullTransformerConfig", "PickleFileTransformerConfig"}

\* keyword options forwarded to a configuration type's constructor
OptionKeys == {"field"}

Options == UNION {[S -> 1..2] : S \in SUBSET OptionKeys}

Tokens == {"--transformer", "--executor"} \cup Names

\* argv: Sequence[str] | None, as a tagged value
Argvs ==
  {[is_none |-> TRUE, tokens |-> <<>>]} \cup
  {[is_none |-> FALSE, tokens |-> t] :
     t \in UNION {[1..n -> Tokens] : n \in 0..MaxArgv}}

\* math.inf, the only non-integer value filter_max_size takes in the model
Inf == -1

FilterTypes == {None, "object-size", "pickle-size", "bogus"}

FilterConfigs ==
  [filter_type : FilterTypes,
   filter_min_size : 0..MaxBytes,
   filter_max_size : (0..MaxBytes) \cup {Inf}]

\* a data item, by the two sizes the size filters measure
Items == [getsizeof : 0..(MaxBytes + 1), pickled : 0..(MaxBytes + 1)]

(* ---------------------------- Python dict ----------------------------- *)
Keys(d) == [i \in 1..Len(d) |-> d[i].name]

KeySet(d) == {d[i].name : i \in 1..Len(d)}

Has(d, k) == k \in KeySet(d)

GetItem(d, k) == d[CHOOSE i \in 1..Len(d) : d[i].name = k].cls

SetItem(d, k, v) ==
  IF Has(d, k)
  THEN [i \in 1..Len(d) |-> IF d[i].name = k THEN [name |-> k, cls |-> v] ELSE d[i]]
  ELSE Append(d, [name |-> k, cls |-> v])

DelItem(d, k) == SelectSeq(d, LAMBDA e : e.name # k)

(* ---------------------------- str ordering and sorted() --------------- *)
StrLess(a, b) ==
  LET x == Chars[a]
      y == Chars[b]
  IN \E i \in 1..(Len(x) + 1) :
       /\ \A j \in 1..(i - 1) : j <= Len(y) /\ x[j] = y[j]
       /\ \/ i > Len(x) /\ i <= Len(y)
          \/ i <= Len(x) /\ i <= Len(y) /\ x[i] < y[i]

RECURSIVE InsertSorted(_, _)
InsertSorted(s, k) ==
  IF s = <<>> THEN <<k>>
  ELSE IF StrLess(Head(s), k) THEN <<Head(s)>> \o InsertSorted(Tail(s), k)
  ELSE <<k>> \o s

RECURSIVE InsertionSort(_)
InsertionSort(s) == IF s = <<>> THEN <<>> ELSE InsertSorted(InsertionSort(Tail(s)), Head(s))

unsorted(s) == s

sorted(s) == InsertionSort(s)

(* ---------------------------- list helpers ---------------------------- *)
Contains(s, t) == \E i \in 1..Len(s) : s[i] = t

\* list.index, as a 1-based position: the first occurrence
Index(s, t) == CHOOSE i \in 1..Len(s) : s[i] = t /\ \A j \in 1..(i - 1) : s[j] # t

(* ---------------------------- filters --------------------------------- *)
\* size <= max_bytes, where max_bytes may be math.inf
LeqMax(size, max_bytes) == max_bytes = Inf \/ size <= max_bytes

Keep(f, item) ==
  CASE f.kind = "NullFilter" -> TRUE
    [] f.kind = "ObjectSizeFilter" ->
         f.min_bytes <= item.getsizeof /\ LeqMax(item.getsizeof, f.max_bytes)
    [] f.kind = "PickleSizeFilter" ->
         f.min_bytes <= item.pickled /\ LeqMax(item.pickled, f.max_bytes)

get_filter_none_sized(self) ==
  IF self.filter_type = None \/ self.filter_type = "object-size"
  THEN [kind |-> "ObjectSizeFilter",
        min_bytes |-> self.filter_min_size,
        max_bytes |-> self.filter_max_size]
  ELSE IF self.filter_type = "pickle-size"
  THEN [kind |-> "PickleSizeFilter",
        min_bytes |-> self.filter_min_size,
        max_bytes |-> self.filter_max_size]
  ELSE [kind |-> "AssertionError"]

get_filter_swapped_bounds(self) ==
  IF self.filter_type = None
  THEN [kind |-> "NullFilter"]
  ELSE IF self.filter_type = "object-size"
  THEN [kind |-> "ObjectSizeFilter",
        min_bytes |-> self.filter_max_size,
        max_bytes |-> self.filter_min_size]
  ELSE IF self.filter_type = "pickle-size"
  THEN [kind |-> "PickleSizeFilter",
        min_bytes |-> self.filter_max_size,
        max_bytes |-> self.filter_min_size]
  ELSE [kind |-> "AssertionError"]

get_filter_no_else(self) ==
  IF self.filter_type = None
  THEN [kind |-> "NullFilter"]
  ELSE IF self.filter_type = "object-size"
  THEN [kind |-> "ObjectSizeFilter",
        min_bytes |-> self.filter_min_size,
        max_bytes |-> self.filter_max_size]
  ELSE [kind |-> "PickleSizeFilter",
        min_bytes |-> self.filter_min_size,
        max_bytes |-> self.filter_max_size]

get_filter(self) ==
  IF self.filter_type = None
  THEN [kind |-> "NullFilter"]
  ELSE IF self.filter_type = "object-size"
  THEN [kind |-> "ObjectSizeFilter",
        min_bytes |-> self.filter_min_size,
        max_bytes |-> self.filter_max_size]
  ELSE IF self.filter_type = "pickle-size"
  THEN [kind |-> "PickleSizeFilter",
        min_bytes |-> self.filter_min_size,
        max_bytes |-> self.filter_max_size]
  ELSE [kind |-> "AssertionError"]

(* ---------------------------- registry -------------------------------- *)
get_transformer_config_default(cfgs, transformer, options) ==
  IF Has(cfgs, transformer)
  THEN [kind |-> "instance", cls |-> GetItem(cfgs, transformer), options |-> options]
  ELSE [kind |-> "None"]

get_transformer_config_no_options(cfgs, transformer, options) ==
  IF Has(cfgs, transformer)
  THEN [kind |-> "instance", cls |-> GetItem(cfgs, transformer), options |-> <<>>]
  ELSE [kind |-> "KeyError"]

\* self._configs[transformer](**options)
get_transformer_config(cfgs, transformer, options) ==
  IF Has(cfgs, transformer)
  THEN [kind |-> "instance", cls |-> GetItem(cfgs, transformer), options |-> options]
  ELSE [kind |-> "KeyError"]

\* return self._configs: the table itself
get_registered(cfgs) == cfgs

register_setdefault(cfgs, name, cls) ==
  IF Has(cfgs, name) THEN cfgs ELSE SetItem(cfgs, name, cls)

\* the decorator returned by register(name=name), applied to cls
register(cfgs, name, cls) == SetItem(cfgs, name, cls)

(* ---------------------------- argument surface ------------------------ *)
\* what one call leaves on the parser: the selector argument and, in call
\* order, the argument group each registered type was asked to add
add_argument_group(cfgs, argv) ==
  LET selector == [flag |-> "--transformer",
                   choices |-> sorted(Keys(get_registered(cfgs))),
                   default |-> "null"]
      scan == ~argv.is_none /\ Contains(argv.tokens, "--executor")
      pos == Index(argv.tokens, "--executor") + 1
  IN IF scan /\ pos > Len(argv.tokens)
     THEN [kind |-> "IndexError", selector |-> selector, groups |-> <<>>]
     ELSE [kind |-> "returned",
           selector |-> selector,
           groups |-> [j \in 1..Len(cfgs) |->
                         [name |-> cfgs[j].name,
                          cls |-> cfgs[j].cls,
                          required |-> scan /\ cfgs[j].name = argv.tokens[pos]]]]

(* ---------------------------- state ----------------------------------- *)
VARIABLES
  configs,         \* _transformer_configs._configs
  held,            \* a caller holds the mapping returned by get_registered()
  call,            \* the most recent call and its arguments
  result,          \* what that call returned or raised
  lastRegistered,  \* history: the type of the last register call per name
  replaced         \* history: the type the step just taken displaced in the table

vars == <<configs, held, call, result, lastRegistered, replaced>>

Init ==
  /\ configs = <<>>
  /\ held = FALSE
  /\ call = [op |-> "init"]
  /\ result = [kind |-> "None"]
  /\ lastRegistered = [n \in Names |-> None]
  /\ replaced = None

Register ==
  \E name \in Names, cls \in Types :
    /\ configs' = register(configs, name, cls)
    /\ call' = [op |-> "register", name |-> name, cls |-> cls]
    /\ result' = [kind |-> "returned", cls |-> cls]
    /\ lastRegistered' = [lastRegistered EXCEPT ![name] = cls]
    /\ replaced' = IF Has(configs, name) THEN GetItem(configs, name) ELSE None
    /\ UNCHANGED held

GetRegistered ==
  /\ call' = [op |-> "get_registered"]
  /\ result' = [kind |-> "returned", mapping |-> get_registered(configs)]
  /\ held' = TRUE
  /\ replaced' = None
  /\ UNCHANGED <<configs, lastRegistered>>

GetTransformerConfig ==
  \E transformer \in Names, options \in Options :
    /\ call' = [op |-> "get_transformer_config",
                transformer |-> transformer, options |-> options]
    /\ result' = get_transformer_config(configs, transformer, options)
    /\ replaced' = None
    /\ UNCHANGED <<configs, held, lastRegistered>>

AddArgumentGroup ==
  \E argv \in Argvs :
    /\ call' = [op |-> "add_argument_group", argv |-> argv]
    /\ result' = add_argument_group(configs, argv)
    /\ replaced' = None
    /\ UNCHANGED <<configs, held, lastRegistered>>

GetFilter ==
  \E self \in FilterConfigs :
    /\ call' = [op |-> "get_filter", self |-> self]
    /\ result' = get_filter(self)
    /\ replaced' = None
    /\ UNCHANGED <<configs, held, lastRegistered>>

\* a caller stores into the mapping it got from get_registered()
CallerSetItem ==
  \E name \in Names, cls \in Types :
    /\ held
    /\ configs' = SetItem(get_registered(configs), name, cls)
    /\ call' = [op |-> "caller_setitem", name |-> name, cls |-> cls]
    /\ result' = [kind |-> "None"]
    /\ replaced' = IF Has(configs, name) THEN GetItem(configs, name) ELSE None
    /\ UNCHANGED <<held, lastRegistered>>

\* a caller deletes from the mapping it got from get_registered()
CallerDelItem ==
  \E name \in Names :
    /\ held
    /\ Has(configs, name)
    /\ configs' = DelItem(get_registered(configs), name)
    /\ call' = [op |-> "caller_delitem", name |-> name]
    /\ result' = [kind |-> "None"]
    /\ replaced' = GetItem(configs, name)
    /\ UNCHANGED <<held, lastRegistered>>

Next ==
  \/ Register
  \/ GetRegistered
  \/ GetTransformerConfig
  \/ AddArgumentGroup
  \/ GetFilter

Spec == Init /\ [][Next]_vars

NextAlias ==
  \/ Register
  \/ GetRegistered
  \/ GetTransformerConfig
  \/ AddArgumentGroup
  \/ GetFilter
  \/ CallerSetItem
  \/ CallerDelItem

SpecAlias == Init /\ [][NextAlias]_vars

(* ---------------------------- properties ------------------------------ *)
\* the token after the first occurrence of flag, or None when the flag is
\* absent or is the last token
ValueAfter(tokens, flag) ==
  IF Contains(tokens, flag) /\ Index(tokens, flag) < Len(tokens)
  THEN tokens[Index(tokens, flag) + 1]
  ELSE None

GroupNames(groups) == {groups[j].name : j \in 1..Len(groups)}

IsAscending(s) == \A i \in 1..Len(s) : \A j \in (i + 1)..Len(s) : StrLess(s[i], s[j])

IsAddArgumentGroup == call.op = "add_argument_group"

IsGetFilter == call.op = "get_filter"

\* C1: when argv holds `--transformer` followed by a registered name foo,
\* add_argument_group adds foo's group with required = TRUE and the group of
\* every other registered name with required = FALSE.
C1_SelectedGroupRequired ==
  (/\ IsAddArgumentGroup
   /\ ~call.argv.is_none
   /\ Has(configs, ValueAfter(call.argv.tokens, "--transformer")))
  => /\ result.kind = "returned"
     /\ GroupNames(result.groups) = KeySet(configs)
     /\ \A j \in 1..Len(result.groups) :
          result.groups[j].required =
            (result.groups[j].name = ValueAfter(call.argv.tokens, "--transformer"))

\* C2: when argv is None or does not contain `--transformer`, the selector
\* is added with default 'null' and the group of every registered name is
\* added with required = FALSE.
C2_NoSelectorNoneRequired ==
  (/\ IsAddArgumentGroup
   /\ (call.argv.is_none \/ ~Contains(call.argv.tokens, "--transformer")))
  => /\ result.selector.default = "null"
     /\ result.kind = "returned"
     /\ GroupNames(result.groups) = KeySet(configs)
     /\ \A j \in 1..Len(result.groups) : ~result.groups[j].required

\* C3: after any sequence of register calls, a name whose last register call
\* associated type T is mapped to T by get_registered(), and
\* get_transformer_config on it returns an instance built by T from exactly
\* the options passed.
C3_LastRegisterWins ==
  /\ \A x \in Names :
       lastRegistered[x] # None =>
         /\ Has(get_registered(configs), x)
         /\ GetItem(get_registered(configs), x) = lastRegistered[x]
         /\ \A o \in Options :
              get_transformer_config(configs, x, o) =
                [kind |-> "instance", cls |-> lastRegistered[x], options |-> o]
  /\ (call.op = "get_transformer_config" /\ lastRegistered[call.transformer] # None)
       => result = [kind |-> "instance",
                    cls |-> lastRegistered[call.transformer],
                    options |-> call.options]
  /\ call.op = "get_registered"
       => \A x \in Names :
            lastRegistered[x] # None =>
              Has(result.mapping, x) /\ GetItem(result.mapping, x) = lastRegistered[x]

C3_Witness ==
  /\ call.op = "get_transformer_config"
  /\ result.kind = "instance"
  /\ call.options # <<>>
  /\ Len(configs) = 2
  /\ configs[1].name = call.transformer
  /\ configs[1].cls # configs[2].cls

\* C4: registering an already registered name with a different type returns
\* without error and replaces the association; the registered names and the
\* association of every other name stay as they were, and
\* get_transformer_config on the name builds the new type.
C4_ReRegisterReplaces ==
  [][(/\ call'.op = "register"
      /\ Has(configs, call'.name)
      /\ GetItem(configs, call'.name) # call'.cls)
     => /\ result'.kind = "returned"
        /\ Keys(configs') = Keys(configs)
        /\ GetItem(configs', call'.name) = call'.cls
        /\ \A y \in KeySet(configs) \ {call'.name} :
             GetItem(configs', y) = GetItem(configs, y)
        /\ \A o \in Options :
             /\ get_transformer_config(configs', call'.name, o).kind = "instance"
             /\ get_transformer_config(configs', call'.name, o).cls = call'.cls
             /\ get_transformer_config(configs', call'.name, o).cls
                  # GetItem(configs, call'.name)]_vars

C4_Witness ==
  /\ call.op = "register"
  /\ replaced # None
  /\ replaced # call.cls
  /\ Len(configs) = 2
  /\ GetItem(configs, call.name) = call.cls

\* C5: get_transformer_config on a name that is not a key of the registry
\* ends in a KeyError (no instance, no default, no None) and leaves the
\* registry table as it was.
C5_UnknownNameKeyError ==
  [][(/\ call'.op = "get_transformer_config"
      /\ ~Has(configs, call'.transformer))
     => /\ result' = [kind |-> "KeyError"]
        /\ configs' = configs]_vars

C5_Witness ==
  /\ call.op = "get_transformer_config"
  /\ result.kind = "KeyError"
  /\ Len(configs) = 1
  /\ ~Has(configs, call.transformer)

\* C6: get_filter with filter_type None returns the Null filter, which keeps
\* every item, whatever filter_min_size and filter_max_size are; the result
\* carries no bounds.
C6_NoneIsNullFilter ==
  (IsGetFilter /\ call.self.filter_type = None)
  => /\ result = [kind |-> "NullFilter"]
     /\ \A item \in Items : Keep(result, item)

C6_Witness ==
  /\ IsGetFilter
  /\ call.self.filter_type = None
  /\ call.self.filter_max_size # Inf
  /\ call.self.filter_min_size > call.self.filter_max_size
  /\ result.kind = "NullFilter"

\* the size the filter named by a filter_type measures on an item
MeasuredSize(filter_type, item) ==
  IF filter_type = "object-size" THEN item.getsizeof ELSE item.pickled

\* C7: get_filter with filter_type 'object-size' (resp. 'pickle-size')
\* returns an ObjectSize (resp. PickleSize) filter with min_bytes =
\* filter_min_size and max_bytes = filter_max_size, which keeps an item iff
\* min_bytes <= size <= max_bytes, both inclusive; with (0, inf) every item
\* is kept and with min > max none is.
C7_SizeFilterBounds ==
  (IsGetFilter /\ call.self.filter_type \in {"object-size", "pickle-size"})
  => LET cfg == call.self
     IN /\ result.kind = (IF cfg.filter_type = "object-size"
                          THEN "ObjectSizeFilter" ELSE "PickleSizeFilter")
        /\ result.min_bytes = cfg.filter_min_size
        /\ result.max_bytes = cfg.filter_max_size
        /\ \A item \in Items :
             Keep(result, item) <=>
               /\ cfg.filter_min_size <= MeasuredSize(cfg.filter_type, item)
               /\ \/ cfg.filter_max_size = Inf
                  \/ MeasuredSize(cfg.filter_type, item) <= cfg.filter_max_size
        /\ (cfg.filter_min_size = 0 /\ cfg.filter_max_size = Inf)
             => \A item \in Items : Keep(result, item)
        /\ (cfg.filter_max_size # Inf /\ cfg.filter_min_size > cfg.filter_max_size)
             => \A item \in Items : ~Keep(result, item)

C7_Witness ==
  /\ IsGetFilter
  /\ call.self.filter_type = "pickle-size"
  /\ call.self.filter_min_size = 1
  /\ call.self.filter_max_size = 1
  /\ result.kind = "PickleSizeFilter"
  /\ Keep(result, [getsizeof |-> 0, pickled |-> 1])
  /\ ~Keep(result, [getsizeof |-> 1, pickled |-> 0])
  /\ ~Keep(result, [getsizeof |-> 1, pickled |-> 2])

\* the choices of the selector are the registered names, ascending, each once
SelectorChoicesSorted ==
  /\ result.selector.flag = "--transformer"
  /\ IsAscending(result.selector.choices)
  /\ {result.selector.choices[i] : i \in 1..Len(result.selector.choices)}
       = KeySet(configs)
  /\ Len(result.selector.choices) = Len(configs)

OneGroupPerName ==
  /\ Len(result.groups) = Len(configs)
  /\ GroupNames(result.groups) = KeySet(configs)
  /\ \A j \in 1..Len(result.groups) :
       result.groups[j].cls = GetItem(configs, result.groups[j].name)

C9_AssertionOnlyOutsideEnum ==
  IsGetFilter =>
    /\ call.self.filter_type \notin {None, "object-size", "pickle-size"}
         => result = [kind |-> "AssertionError"]
    /\ call.self.filter_type \in {None, "object-size", "pickle-size"}
         => result.kind \in {"NullFilter", "ObjectSizeFilter", "PickleSizeFilter"}

C9_Witness ==
  /\ IsGetFilter
  /\ call.self.filter_type = "bogus"
  /\ result.kind = "AssertionError"

\* C10: the registry table changes only through register; what a caller does
\* to the mapping returned by get_registered() does not change the table.
C10_OnlyRegisterChangesTable ==
  [][configs' # configs => call'.op = "register"]_vars

====
